---- MODULE Spec2Model ----
(***************************************************************************)
(* Model of qiskit/assembler/assemble_circuits.py: assemble_circuits()     *)
(* turns a batch of circuits into one qobj.  The state is the function's   *)
(* local variables; one action per block of the function body.             *)
(*                                                                         *)
(* Python objects are records holding only the attributes that are set,    *)
(* so hasattr(o, a) is  a \in DOMAIN o.  None and an absent optional are   *)
(* the empty tuple.  A register is [name, size]; a bit reference is        *)
(* <<register name, offset>>; a condition is <<register name, value>>.     *)
(***************************************************************************)
EXTENDS Integers, Sequences, FiniteSets, TLC

VARIABLES circuits, run_config, pc, ci, oi, qobj_config, experiments,
          max_n_qubits, max_memory_slots, n_qubits, memory_slots,
          qubit_labels, clbit_labels, experimentheader, experimentconfig,
          is_conditional_experiment, max_conditional_idx, instructions, qobj

vars == <<circuits, run_config, pc, ci, oi, qobj_config, experiments,
          max_n_qubits, max_memory_slots, n_qubits, memory_slots,
          qubit_labels, clbit_labels, experimentheader, experimentconfig,
          is_conditional_experiment, max_conditional_idx, instructions, qobj>>

----------------------------------------------------------------------------
(* Bounds of the explored inputs.                                          *)

MaxSize == 3

MaxVal == 5

MaxOps == 2

MaxCircuits == 2

----------------------------------------------------------------------------
(* Python values.                                                          *)

None == <<>>

\* setattr(obj, attr, value)
SetAttr(obj, attr, value) ==
    [a \in (DOMAIN obj) \cup {attr} |-> IF a = attr THEN value ELSE obj[a]]

\* del obj.attr
DelAttr(obj, attr) == [a \in (DOMAIN obj) \ {attr} |-> obj[a]]

\* list.index(x): position of the first element equal to x, counted from 0;
\* -1 stands for the ValueError raised when x is not in the list.
Index(list, x) ==
    IF \E p \in 1..Len(list) : list[p] = x
    THEN (CHOOSE p \in 1..Len(list) :
              list[p] = x /\ \A r \in 1..(p - 1) : list[r] # x) - 1
    ELSE -1

RECURSIVE Pow2(_)
Pow2(n) == IF n = 0 THEN 1 ELSE 2 * Pow2(n - 1)

\* (v >> n) & 1
Bit(v, n) == (v \div Pow2(n)) % 2

\* a | (b << n) for b in {0, 1}
OrBit(a, b, n) == IF b = 1 /\ Bit(a, n) = 0 THEN a + Pow2(n) ELSE a

UpperHex == <<"0", "1", "2", "3", "4", "5", "6", "7",
              "8", "9", "A", "B", "C", "D", "E", "F">>

RECURSIVE HexDigits(_)
HexDigits(n) ==
    IF n < 16 THEN <<UpperHex[n + 1]>>
    ELSE HexDigits(n \div 16) \o <<UpperHex[(n % 16) + 1]>>

\* "0x%X" % n, as the sequence of its characters
HexX(n) == <<"0", "x">> \o HexDigits(n)

----------------------------------------------------------------------------
(* The per-circuit header block, lines 40-56.                              *)

\* Labels with the offsets counted from 1, as range(1, reg.size + 1) would
RECURSIVE LabelsFromOne(_)
LabelsFromOne(regs) ==
    IF regs = <<>> THEN <<>>
    ELSE [j \in 1..Head(regs).size |-> <<Head(regs).name, j>>]
         \o LabelsFromOne(Tail(regs))

\* for j in range(reg.size): labels.append([reg.name, j]), over all registers
RECURSIVE Labels(_)
Labels(regs) ==
    IF regs = <<>> THEN <<>>
    ELSE [j \in 1..Head(regs).size |-> <<Head(regs).name, j - 1>>]
         \o Labels(Tail(regs))

\* n += reg.size, over all registers
RECURSIVE TotalSize(_)
TotalSize(regs) ==
    IF regs = <<>> THEN 0 ELSE Head(regs).size + TotalSize(Tail(regs))

\* [reg.name, reg.size] for every register
RegSizes(regs) == [p \in 1..Len(regs) |-> <<regs[p].name, regs[p].size>>]

\* any(op.control for (op, qargs, cargs) in circuit.data)
AnyControl(data) == \E p \in 1..Len(data) : data[p].control # None

\* lines 60-66
Header(c) ==
    [qubit_labels |-> Labels(c.qregs),
     n_qubits |-> TotalSize(c.qregs),
     qreg_sizes |-> RegSizes(c.qregs),
     clbit_labels |-> Labels(c.cregs),
     memory_slots |-> TotalSize(c.cregs),
     creg_sizes |-> RegSizes(c.cregs),
     name |-> c.name]

\* line 68
ExperimentConfig(c) ==
    [n_qubits |-> TotalSize(c.qregs), memory_slots |-> TotalSize(c.cregs)]

----------------------------------------------------------------------------
(* The per-operation block, lines 81-124.                                  *)

\* Instruction.assemble(): the base instruction of an operation; it carries
\* the operation's condition as _control exactly when the operation has one.
Assemble(op) ==
    IF op.control # None
    THEN [a \in {"name", "_control"} |->
             IF a = "name" THEN op.name ELSE op.control]
    ELSE [a \in {"name"} |-> op.name]

\* [labels.index([bit[0].name, bit[1]]) for bit in args]
Indices(labels, args) == [p \in 1..Len(args) |-> Index(labels, args[p])]

\* Raises for a lookup that yields -1 instead of raising, as str.find does
RaisesNever(labels, args) == FALSE

\* the list comprehension raises ValueError when a reference is not a label
Raises(labels, args) == \E p \in 1..Len(args) : Index(labels, args[p]) = -1

\* lines 86-89
WithQubits(instruction, qlabels, qargs) ==
    IF qargs # <<>>
    THEN SetAttr(instruction, "qubits", Indices(qlabels, qargs))
    ELSE instruction

\* RoutesToRegister without the is_conditional_experiment test
RoutesEveryMeasure(instruction, is_cond) == instruction.name = "measure"

\* line 96
RoutesToRegister(instruction, is_cond) ==
    instruction.name = "measure" /\ is_cond

\* lines 90-97
WithMemory(instruction, clabels, cargs, is_cond) ==
    IF cargs # <<>>
    THEN LET clbit_indices == Indices(clabels, cargs)
             withmem == SetAttr(instruction, "memory", clbit_indices)
         IN  IF RoutesToRegister(instruction, is_cond)
             THEN SetAttr(withmem, "register", clbit_indices)
             ELSE withmem
    ELSE instruction

\* MaskLoop without the comparison of the register names
RECURSIVE MaskLoopAnyRegister(_, _, _)
MaskLoopAnyRegister(clabels, ctrl_name, p) ==
    IF p = 0 THEN 0
    ELSE OrBit(MaskLoopAnyRegister(clabels, ctrl_name, p - 1), 1,
               Index(clabels, clabels[p]))

\* lines 104-109: the loop over clbit_labels, p labels done
RECURSIVE MaskLoop(_, _, _)
MaskLoop(clabels, ctrl_name, p) ==
    IF p = 0 THEN 0
    ELSE LET clbit == clabels[p]
             rest == MaskLoop(clabels, ctrl_name, p - 1)
         IN  IF clbit[1] = ctrl_name
             THEN OrBit(rest, 1, Index(clabels, clbit))
             ELSE rest

\* ValLoop shifting the value by the flat index instead of the offset
RECURSIVE ValLoopFlatShift(_, _, _, _)
ValLoopFlatShift(clabels, ctrl_name, ctrl_val, p) ==
    IF p = 0 THEN 0
    ELSE LET clbit == clabels[p]
             rest == ValLoopFlatShift(clabels, ctrl_name, ctrl_val, p - 1)
         IN  IF clbit[1] = ctrl_name
             THEN OrBit(rest, Bit(ctrl_val, Index(clabels, clbit)),
                        Index(clabels, clbit))
             ELSE rest

\* lines 104-109, val
RECURSIVE ValLoop(_, _, _, _)
ValLoop(clabels, ctrl_name, ctrl_val, p) ==
    IF p = 0 THEN 0
    ELSE LET clbit == clabels[p]
             rest == ValLoop(clabels, ctrl_name, ctrl_val, p - 1)
         IN  IF clbit[1] = ctrl_name
             THEN OrBit(rest, Bit(ctrl_val, clbit[2]), Index(clabels, clbit))
             ELSE rest

\* ConditionalRegIdx without the memory_slots base
ConditionalRegIdxFromZero(mem_slots, max_cond_idx) == max_cond_idx

\* line 111
ConditionalRegIdx(mem_slots, max_cond_idx) == mem_slots + max_cond_idx

\* lines 112-116
Bfunc(mask, val, conditional_reg_idx) ==
    [name |-> "bfunc", mask |-> HexX(mask), relation |-> "==",
     val |-> HexX(val), register |-> conditional_reg_idx]

\* Emitted with the test appended after the instruction it gates
EmittedTestAfter(instruction, clabels, mem_slots, max_cond_idx) ==
    IF "_control" \in DOMAIN instruction
    THEN LET ctrl_name == instruction["_control"][1]
             ctrl_val == instruction["_control"][2]
             mask == MaskLoop(clabels, ctrl_name, Len(clabels))
             val == ValLoop(clabels, ctrl_name, ctrl_val, Len(clabels))
             conditional_reg_idx == ConditionalRegIdx(mem_slots, max_cond_idx)
         IN  << DelAttr(SetAttr(instruction, "conditional", conditional_reg_idx),
                        "_control"),
                Bfunc(mask, val, conditional_reg_idx) >>
    ELSE << instruction >>

\* lines 102-124: what one operation appends to the instruction list
Emitted(instruction, clabels, mem_slots, max_cond_idx) ==
    IF "_control" \in DOMAIN instruction
    THEN LET ctrl_name == instruction["_control"][1]
             ctrl_val == instruction["_control"][2]
             mask == MaskLoop(clabels, ctrl_name, Len(clabels))
             val == ValLoop(clabels, ctrl_name, ctrl_val, Len(clabels))
             conditional_reg_idx == ConditionalRegIdx(mem_slots, max_cond_idx)
         IN  << Bfunc(mask, val, conditional_reg_idx),
                DelAttr(SetAttr(instruction, "conditional", conditional_reg_idx),
                        "_control") >>
    ELSE << instruction >>

\* NextConditionalIdx without the increment
NextConditionalIdxStuck(instruction, max_cond_idx) == max_cond_idx

\* line 119
NextConditionalIdx(instruction, max_cond_idx) ==
    IF "_control" \in DOMAIN instruction THEN max_cond_idx + 1
    ELSE max_cond_idx

\* lines 81-124: one pass of the loop body over the loop's variables
LowerStep(op, qlabels, clabels, mem_slots, is_cond, st) ==
    LET instruction ==
            WithMemory(WithQubits(Assemble(op), qlabels, op.qargs),
                       clabels, op.cargs, is_cond)
    IN  [instructions |->
             st.instructions \o Emitted(instruction, clabels, mem_slots,
                                        st.max_conditional_idx),
         max_conditional_idx |->
             NextConditionalIdx(instruction, st.max_conditional_idx)]

----------------------------------------------------------------------------
(* The batch block, lines 30-37 and 126-139.                               *)

\* lines 30-32
InitialConfig(rc) == IF rc # None THEN rc[1] ELSE <<>>

\* FreshConditionalIdx when the counter is initialised before the loop over
\* the circuits only
FreshConditionalIdxKept(previous) == previous

\* line 77
FreshConditionalIdx(previous) == 0

\* RunningMax overwritten by every circuit
RunningLast(current, n) == n

\* lines 128-131
RunningMax(current, n) == IF n > current THEN n ELSE current

\* lines 133-134
FinalConfig(config, max_mem, max_q) ==
    SetAttr(SetAttr(config, "memory_slots", max_mem), "n_qubits", max_q)

----------------------------------------------------------------------------
(* assemble_circuits, one action per block of its body.                    *)

circuit == circuits[ci + 1]

op_context == circuit.data[oi + 1]

\* lines 30-37
Configure ==
    /\ pc = "start"
    /\ qobj_config' = InitialConfig(run_config)
    /\ experiments' = <<>>
    /\ max_n_qubits' = 0
    /\ max_memory_slots' = 0
    /\ ci' = 0
    /\ pc' = "circuit"
    /\ UNCHANGED <<circuits, run_config, oi, n_qubits, memory_slots,
                   qubit_labels, clbit_labels, experimentheader,
                   experimentconfig, is_conditional_experiment,
                   max_conditional_idx, instructions, qobj>>

\* lines 38-79: the next circuit's labels, header, config and pre-pass
BeginCircuit ==
    /\ pc = "circuit"
    /\ ci < Len(circuits)
    /\ n_qubits' = TotalSize(circuit.qregs)
    /\ memory_slots' = TotalSize(circuit.cregs)
    /\ qubit_labels' = Labels(circuit.qregs)
    /\ clbit_labels' = Labels(circuit.cregs)
    /\ experimentheader' = Header(circuit)
    /\ experimentconfig' = ExperimentConfig(circuit)
    /\ is_conditional_experiment' = AnyControl(circuit.data)
    /\ max_conditional_idx' = FreshConditionalIdx(max_conditional_idx)
    /\ instructions' = <<>>
    /\ oi' = 0
    /\ pc' = "op"
    /\ UNCHANGED <<circuits, run_config, ci, qobj_config, experiments,
                   max_n_qubits, max_memory_slots, qobj>>

\* lines 80-124: one operation; an unresolved reference raises out of the
\* function, which then returns nothing
LowerOp ==
    /\ pc = "op"
    /\ oi < Len(circuit.data)
    /\ IF \/ Raises(qubit_labels, op_context.qargs)
          \/ Raises(clbit_labels, op_context.cargs)
       THEN /\ pc' = "raised"
            /\ UNCHANGED <<oi, instructions, max_conditional_idx>>
       ELSE LET st == LowerStep(op_context, qubit_labels, clbit_labels,
                                memory_slots, is_conditional_experiment,
                                [instructions |-> instructions,
                                 max_conditional_idx |-> max_conditional_idx])
            IN  /\ instructions' = st.instructions
                /\ max_conditional_idx' = st.max_conditional_idx
                /\ oi' = oi + 1
                /\ pc' = "op"
    /\ UNCHANGED <<circuits, run_config, ci, qobj_config, experiments,
                   max_n_qubits, max_memory_slots, n_qubits, memory_slots,
                   qubit_labels, clbit_labels, experimentheader,
                   experimentconfig, is_conditional_experiment, qobj>>

\* lines 126-131
EndCircuit ==
    /\ pc = "op"
    /\ oi = Len(circuit.data)
    /\ experiments' = Append(experiments,
                             [instructions |-> instructions,
                              header |-> experimentheader,
                              config |-> experimentconfig])
    /\ max_n_qubits' = RunningMax(max_n_qubits, n_qubits)
    /\ max_memory_slots' = RunningMax(max_memory_slots, memory_slots)
    /\ ci' = ci + 1
    /\ pc' = "circuit"
    /\ UNCHANGED <<circuits, run_config, oi, qobj_config, n_qubits,
                   memory_slots, qubit_labels, clbit_labels, experimentheader,
                   experimentconfig, is_conditional_experiment,
                   max_conditional_idx, instructions, qobj>>

\* lines 133-139; qobj_id and qobj_header are handed through untouched
Return ==
    /\ pc = "circuit"
    /\ ci = Len(circuits)
    /\ qobj_config' = FinalConfig(qobj_config, max_memory_slots, max_n_qubits)
    /\ qobj' = << [config |-> FinalConfig(qobj_config, max_memory_slots,
                                          max_n_qubits),
                   experiments |-> experiments] >>
    /\ pc' = "done"
    /\ UNCHANGED <<circuits, run_config, ci, oi, experiments, max_n_qubits,
                   max_memory_slots, n_qubits, memory_slots, qubit_labels,
                   clbit_labels, experimentheader, experimentconfig,
                   is_conditional_experiment, max_conditional_idx,
                   instructions>>

\* lines 38-127 for one circuit on its own: the loop's variables after the
\* first p operations, and the experiment appended at the end
RECURSIVE LowerAll(_, _)
LowerAll(c, p) ==
    IF p = 0
    THEN [instructions |-> <<>>, max_conditional_idx |-> 0]
    ELSE LowerStep(c.data[p], Labels(c.qregs), Labels(c.cregs),
                   TotalSize(c.cregs), AnyControl(c.data), LowerAll(c, p - 1))

ExperimentOf(c) ==
    [instructions |-> LowerAll(c, Len(c.data)).instructions,
     header |-> Header(c),
     config |-> ExperimentConfig(c)]

Next == Configure \/ BeginCircuit \/ LowerOp \/ EndCircuit \/ Return

----------------------------------------------------------------------------
(* Inputs.  Register names are unique within a circuit, as QuantumCircuit  *)
(* enforces; condition values are non-negative, as c_if enforces.          *)

SeqsUpTo(S, n) == UNION {[1..m -> S] : m \in 0..n}

\* the registers named by a prefix of names, of every size up to MaxSize
RegLists(names) ==
    UNION {{[p \in 1..m |-> [name |-> names[p], size |-> f[p]]] :
               f \in [1..m -> 0..MaxSize]} : m \in 0..Len(names)}

Op(name, qargs, cargs, control) ==
    [name |-> name, qargs |-> qargs, cargs |-> cargs, control |-> control]

Circuit(qregs, cregs, data) ==
    [name |-> "circuit", qregs |-> qregs, cregs |-> cregs, data |-> data]

QReg1 == <<[name |-> "q", size |-> 1]>>

CReg1 == <<[name |-> "c", size |-> 1]>>

\* gates under every condition on c or d, over every classical layout
MaskOps ==
    {Op("x", << <<"q", 0>> >>, <<>>, control) :
        control \in {None} \cup ({"c", "d"} \X (0..MaxVal))}

MaskCircuits ==
    {Circuit(QReg1, cregs, data) :
        cregs \in RegLists(<<"c", "d">>), data \in SeqsUpTo(MaskOps, MaxOps)}

\* measurements and gates, with and without clbits, with and without condition
RouteOps ==
    {Op(name, qargs, cargs, control) :
        name \in {"measure", "x"},
        qargs \in {<<>>, << <<"q", 0>> >>},
        cargs \in {<<>>, << <<"c", 0>> >>},
        control \in {None, <<"c", 1>>}}

RouteCircuits ==
    {Circuit(QReg1, CReg1, data) : data \in SeqsUpTo(RouteOps, MaxOps)}

Refs(names) == names \X (0..MaxSize)

\* every quantum layout against references to q and r, and the same for the
\* classical side
LabelCircuits ==
    {Circuit(qregs, CReg1, data) :
        qregs \in RegLists(<<"q", "r">>),
        data \in SeqsUpTo({Op("u", qargs, cargs, None) :
                              qargs \in SeqsUpTo(Refs({"q", "r"}), 2),
                              cargs \in {<<>>, << <<"c", 0>> >>}}, 1)}
    \cup
    {Circuit(QReg1, cregs, data) :
        cregs \in RegLists(<<"c", "d">>),
        data \in SeqsUpTo({Op("u", qargs, cargs, None) :
                              qargs \in {<<>>, << <<"q", 0>> >>},
                              cargs \in SeqsUpTo(Refs({"c", "d"}), 2)}, 1)}

\* circuits of different sizes, with and without conditions, one malformed
BatchCircuits ==
    {Circuit(<<[name |-> "q", size |-> nq]>>, <<[name |-> "c", size |-> nc]>>,
             data) :
        nq \in {1, MaxSize}, nc \in {1, MaxSize},
        data \in {<<>>,
                  << Op("x", << <<"q", 0>> >>, <<>>, <<"c", 1>>) >>,
                  << Op("x", << <<"q", 0>> >>, <<>>, <<"c", 1>>),
                     Op("measure", << <<"q", 0>> >>, << <<"c", 0>> >>, None),
                     Op("x", << <<"q", 0>> >>, <<>>, <<"c", 0>>) >>,
                  << Op("x", << <<"r", 0>> >>, <<>>, None) >>}}

\* RunConfig.to_dict(), or no run configuration
RunConfigs ==
    {None,
     << [shots |-> 1024] >>,
     << [shots |-> 1024, n_qubits |-> 7, memory_slots |-> 0] >>,
     << [n_qubits |-> 0, memory_slots |-> 7] >>}

InitWith(batches, configs) ==
    /\ circuits \in batches
    /\ run_config \in configs
    /\ pc = "start"
    /\ ci = 0
    /\ oi = 0
    /\ qobj_config = <<>>
    /\ experiments = <<>>
    /\ max_n_qubits = 0
    /\ max_memory_slots = 0
    /\ n_qubits = 0
    /\ memory_slots = 0
    /\ qubit_labels = <<>>
    /\ clbit_labels = <<>>
    /\ experimentheader = <<>>
    /\ experimentconfig = <<>>
    /\ is_conditional_experiment = FALSE
    /\ max_conditional_idx = 0
    /\ instructions = <<>>
    /\ qobj = None

Single(cs) == {<<c>> : c \in cs}

Init == InitWith(SeqsUpTo(BatchCircuits, MaxCircuits), RunConfigs)

Spec == Init /\ [][Next]_vars

InitMask == InitWith(Single(MaskCircuits), {None})

SpecMask == InitMask /\ [][Next]_vars

InitRoute == InitWith(Single(RouteCircuits), {None})

SpecRoute == InitRoute /\ [][Next]_vars

InitLabels == InitWith(Single(LabelCircuits), {None})

SpecLabels == InitLabels /\ [][Next]_vars

----------------------------------------------------------------------------
(* Vocabulary of the properties.  Experiment e is the one appended for     *)
(* circuits[e].                                                            *)

Has(obj, attr) == attr \in DOMAIN obj

IsTest(ins) == ins.name = "bfunc"

IsLowered(ins) == ins.name # "bfunc"

HasCondition(op) == op.control # None

\* the synthesized tests, the lowered operations and the conditional
\* operations, each in order
Tests(inss) == SelectSeq(inss, IsTest)

Lowered(inss) == SelectSeq(inss, IsLowered)

Conditioned(data) == SelectSeq(data, HasCondition)

Finished == 1..Len(experiments)

\* sum of the sizes of the registers declared before the p-th
RECURSIVE SizeBefore(_, _)
SizeBefore(regs, p) ==
    IF p <= 1 THEN 0 ELSE regs[p - 1].size + SizeBefore(regs, p - 1)

Declared(regs, name) == \E p \in 1..Len(regs) : regs[p].name = name

RegPos(regs, name) == CHOOSE p \in 1..Len(regs) : regs[p].name = name

\* the flat indices that belong to a declared register
FlatOf(regs, name) ==
    {SizeBefore(regs, RegPos(regs, name)) + j :
        j \in 0..(regs[RegPos(regs, name)].size - 1)}

IsGated(ins) == IsLowered(ins) /\ Has(ins, "conditional")

\* the lowered instructions that point at a test, in order
Gated(inss) == SelectSeq(inss, IsGated)

\* reading a hexadecimal literal back: 0x, then upper-case digits
HexDigitChars == <<"0", "1", "2", "3", "4", "5", "6", "7",
                   "8", "9", "A", "B", "C", "D", "E", "F">>

IsHexLiteral(str) ==
    /\ Len(str) >= 3
    /\ str[1] = "0"
    /\ str[2] = "x"
    /\ \A p \in 3..Len(str) : \E d \in 1..16 : HexDigitChars[d] = str[p]

RECURSIVE HexValue(_, _)
HexValue(str, p) ==
    IF p < 3 THEN 0
    ELSE 16 * HexValue(str, p - 1)
         + (CHOOSE d \in 1..16 : HexDigitChars[d] = str[p]) - 1

NumberOf(str) == HexValue(str, Len(str))

InTable(regs, ref) ==
    /\ Declared(regs, ref[1])
    /\ ref[2] \in 0..(regs[RegPos(regs, ref[1])].size - 1)

----------------------------------------------------------------------------
\* C1: in every produced instruction list, the lowered operations (the list
\* without its bfuncs) are the circuit's operations in their order, a lowered
\* operation has a conditional field exactly when its operation has a
\* condition and never keeps the condition itself, every bfunc is followed
\* immediately by a lowered instruction whose conditional field is the
\* bfunc's register slot, and every instruction with a conditional field is
\* preceded immediately by a bfunc.
C1_ConditionalLowering ==
    \A e \in Finished :
        LET inss == experiments[e].instructions
            data == circuits[e].data
            low == Lowered(inss)
        IN  /\ Len(low) = Len(data)
            /\ Len(Tests(inss)) = Len(Conditioned(data))
            /\ \A p \in 1..Len(data) :
                   /\ low[p].name = data[p].name
                   /\ Has(low[p], "qubits") <=> (data[p].qargs # <<>>)
                   /\ Has(low[p], "memory") <=> (data[p].cargs # <<>>)
                   /\ Has(low[p], "conditional") <=> HasCondition(data[p])
                   /\ ~Has(low[p], "_control")
            /\ \A j \in 1..Len(inss) :
                   IsTest(inss[j]) =>
                       /\ j < Len(inss)
                       /\ IsLowered(inss[j + 1])
                       /\ Has(inss[j + 1], "conditional")
                       /\ inss[j + 1].conditional = inss[j].register
            /\ \A j \in 1..Len(inss) :
                   (IsLowered(inss[j]) /\ Has(inss[j], "conditional")) =>
                       /\ j > 1
                       /\ IsTest(inss[j - 1])

\* an unconditional measurement followed by a conditional gate has been
\* lowered to measure, bfunc, x
C1_Witness ==
    \E e \in Finished :
        /\ Len(circuits[e].data) = 2
        /\ circuits[e].data[1].name = "measure"
        /\ ~HasCondition(circuits[e].data[1])
        /\ circuits[e].data[2].name = "x"
        /\ HasCondition(circuits[e].data[2])
        /\ Len(experiments[e].instructions) = 3
        /\ experiments[e].instructions[2].name = "bfunc"
        /\ experiments[e].instructions[3].name = "x"

\* C3: the k-th synthesized test of an experiment (k from 0) has slot index
\* memory_slots + k, memory_slots being the circuit's declared classical-bit
\* count, and the declared classical bits have the flat indices below
\* memory_slots, so that no slot index is a declared classical-bit index.
C3_SlotIndices ==
    \A e \in Finished :
        LET inss == experiments[e].instructions
            tests == Tests(inss)
            cregs == circuits[e].cregs
            declared == SizeBefore(cregs, Len(cregs) + 1)
        IN  /\ experiments[e].config.memory_slots = declared
            /\ \A k \in 1..Len(tests) : tests[k].register = declared + (k - 1)
            /\ Len(experiments[e].header.clbit_labels) = declared
            /\ \A k \in 1..Len(tests) :
                   tests[k].register \notin 0..(declared - 1)

\* two tests in a circuit that declares classical bits
C3_Witness ==
    \E e \in Finished :
        /\ Len(Tests(experiments[e].instructions)) = 2
        /\ experiments[e].config.memory_slots >= 2
        /\ Tests(experiments[e].instructions)[2].register =
               experiments[e].config.memory_slots + 1

\* C5: a lowered instruction has a register field exactly when its operation
\* is a measure with a classical-bit reference in a circuit where some
\* operation has a condition, the field then equals its memory list; a circuit
\* without conditions yields no bfunc and no register field.
C5_EagerRouting ==
    \A e \in Finished :
        LET inss == experiments[e].instructions
            data == circuits[e].data
            low == Lowered(inss)
            conditional == \E q \in 1..Len(data) : HasCondition(data[q])
        IN  /\ Len(low) = Len(data)
            /\ \A p \in 1..Len(data) :
                   /\ Has(low[p], "register") <=>
                          /\ data[p].name = "measure"
                          /\ data[p].cargs # <<>>
                          /\ conditional
                   /\ Has(low[p], "register") =>
                          low[p].register = low[p].memory
            /\ ~conditional =>
                   \A j \in 1..Len(inss) :
                       IsLowered(inss[j]) /\ ~Has(inss[j], "register")

\* a measurement precedes the only conditional operation and is routed
C5_Witness ==
    \E e \in Finished :
        /\ Len(circuits[e].data) = 2
        /\ circuits[e].data[1].name = "measure"
        /\ ~HasCondition(circuits[e].data[1])
        /\ HasCondition(circuits[e].data[2])
        /\ Has(experiments[e].instructions[1], "register")
        /\ experiments[e].instructions[1].register = <<0>>

\* C2: for the test of a condition (R, v) on a declared register R, mask and
\* val are 0x followed by upper-case hexadecimal digits, relation is ==, bit
\* i of mask is 1 exactly for the flat indices i of R, bit i of val is bit
\* (i - first flat index of R) of v for those i, and every other bit of both
\* is 0.
C2_MaskAndVal ==
    \A e \in Finished :
        LET tests == Tests(experiments[e].instructions)
            conds == Conditioned(circuits[e].data)
            cregs == circuits[e].cregs
            top == SizeBefore(cregs, Len(cregs) + 1)
        IN  /\ Len(tests) = Len(conds)
            /\ \A k \in 1..Len(tests) :
                   LET R == conds[k].control[1]
                       v == conds[k].control[2]
                   IN  Declared(cregs, R) =>
                           /\ tests[k].relation = "=="
                           /\ IsHexLiteral(tests[k].mask)
                           /\ IsHexLiteral(tests[k].val)
                           /\ LET mask == NumberOf(tests[k].mask)
                                  val == NumberOf(tests[k].val)
                                  flat == FlatOf(cregs, R)
                                  first == SizeBefore(cregs, RegPos(cregs, R))
                              IN  /\ mask < Pow2(top + 1)
                                  /\ val < Pow2(top + 1)
                                  /\ \A i \in 0..top :
                                         /\ Bit(mask, i) = 1 <=> i \in flat
                                         /\ Bit(val, i) =
                                                IF i \in flat
                                                THEN Bit(v, i - first)
                                                ELSE 0

\* the condition d == 5 with c and d of two bits each: mask 0xC, and val 0x4
\* since bit 2 of the value is dropped
C2_Witness ==
    \E e \in Finished :
        /\ circuits[e].cregs = <<[name |-> "c", size |-> 2],
                                 [name |-> "d", size |-> 2]>>
        /\ Len(circuits[e].data) = 1
        /\ circuits[e].data[1].control = <<"d", 5>>
        /\ experiments[e].instructions[1].mask = <<"0", "x", "C">>
        /\ experiments[e].instructions[1].val = <<"0", "x", "4">>

\* C10: a condition on a register that has no label in the classical table
\* (not declared, or of size 0) raises nothing: its test has mask 0x0 and val
\* 0x0 and takes the next slot index, and the gated instruction points at
\* that slot.
C10_UnlabelledConditionRegister ==
    /\ (\A c \in 1..Len(circuits) : \A p \in 1..Len(circuits[c].data) :
            /\ \A q \in 1..Len(circuits[c].data[p].qargs) :
                   InTable(circuits[c].qregs, circuits[c].data[p].qargs[q])
            /\ \A q \in 1..Len(circuits[c].data[p].cargs) :
                   InTable(circuits[c].cregs, circuits[c].data[p].cargs[q]))
           => pc # "raised"
    /\ \A e \in Finished :
           LET tests == Tests(experiments[e].instructions)
               gated == Gated(experiments[e].instructions)
               conds == Conditioned(circuits[e].data)
               cregs == circuits[e].cregs
           IN  /\ Len(tests) = Len(conds)
               /\ Len(gated) = Len(conds)
               /\ \A k \in 1..Len(conds) :
                      (\/ ~Declared(cregs, conds[k].control[1])
                       \/ FlatOf(cregs, conds[k].control[1]) = {}) =>
                          /\ tests[k].mask = <<"0", "x", "0">>
                          /\ tests[k].val = <<"0", "x", "0">>
                          /\ tests[k].register =
                                 SizeBefore(cregs, Len(cregs) + 1) + (k - 1)
                          /\ gated[k].conditional = tests[k].register

\* after a condition on c, a condition on the undeclared d got slot 3
C10_Witness ==
    \E e \in Finished :
        /\ circuits[e].cregs = <<[name |-> "c", size |-> 2]>>
        /\ Len(circuits[e].data) = 2
        /\ circuits[e].data[1].control = <<"c", 1>>
        /\ circuits[e].data[2].control = <<"d", 1>>
        /\ pc = "done"
        /\ experiments[e].instructions[3].mask = <<"0", "x", "0">>
        /\ experiments[e].instructions[3].register = 3
        /\ experiments[e].instructions[4].conditional = 3

\* C4 as stated: a slot index assigned to a test of one experiment is not
\* assigned to a test of any other experiment of the bundle.
C4_NoReuseAcrossCircuits ==
    \A e1 \in Finished : \A e2 \in Finished \ {e1} :
        \A k1 \in 1..Len(Tests(experiments[e1].instructions)) :
            \A k2 \in 1..Len(Tests(experiments[e2].instructions)) :
                Tests(experiments[e1].instructions)[k1].register #
                    Tests(experiments[e2].instructions)[k2].register

SlotsOf(e) ==
    {Tests(experiments[e].instructions)[k].register :
        k \in 1..Len(Tests(experiments[e].instructions))}

\* C4 amended: slot indices are never reused within one experiment; across
\* experiments they are assigned independently, and two experiments with a
\* test each whose circuits declare the same number of classical bits both
\* use the slot index memory_slots.
C4_NoReuseWithinCircuit ==
    /\ \A e \in Finished :
           Cardinality(SlotsOf(e)) = Len(Tests(experiments[e].instructions))
    /\ \A e1 \in Finished : \A e2 \in Finished \ {e1} :
           (/\ SlotsOf(e1) # {}
            /\ SlotsOf(e2) # {}
            /\ experiments[e1].config.memory_slots =
                   experiments[e2].config.memory_slots) =>
               experiments[e1].config.memory_slots
                   \in SlotsOf(e1) \cap SlotsOf(e2)

\* two different circuits with one classical bit, two tests in the first and
\* one in the second
C4_Witness ==
    /\ pc = "done"
    /\ Len(experiments) = 2
    /\ circuits[1] # circuits[2]
    /\ SlotsOf(1) = {1, 2}
    /\ SlotsOf(2) = {1}

MaxOf(S) == IF S = {} THEN 0 ELSE CHOOSE m \in S : \A x \in S : x <= m

RunOptions == IF run_config = None THEN <<>> ELSE run_config[1]

\* C6: the returned config has the run configuration's keys plus n_qubits and
\* memory_slots; these two are the maxima over the experiments' own counts (0
\* for an empty batch, which is no error), whatever the run configuration
\* gave for them; every other run option is unchanged; each experiment's
\* config holds its own circuit's two counts.
C6_BundleConfig ==
    /\ (circuits = <<>>) => pc # "raised"
    /\ pc = "done" =>
           LET config == qobj[1].config
           IN  /\ qobj[1].experiments = experiments
               /\ (circuits = <<>>) => experiments = <<>>
               /\ DOMAIN config =
                      (DOMAIN RunOptions) \cup {"n_qubits", "memory_slots"}
               /\ config.n_qubits =
                      MaxOf({experiments[e].config.n_qubits : e \in Finished})
               /\ config.memory_slots =
                      MaxOf({experiments[e].config.memory_slots :
                                e \in Finished})
               /\ \A a \in (DOMAIN RunOptions) \ {"n_qubits", "memory_slots"} :
                      config[a] = RunOptions[a]
               /\ \A e \in Finished :
                      /\ experiments[e].config.n_qubits =
                             SizeBefore(circuits[e].qregs,
                                        Len(circuits[e].qregs) + 1)
                      /\ experiments[e].config.memory_slots =
                             SizeBefore(circuits[e].cregs,
                                        Len(circuits[e].cregs) + 1)

\* the maxima come from different circuits, the larger one first, and
\* replace the run configuration's 7 and 0
C6_Witness ==
    /\ pc = "done"
    /\ run_config = << [shots |-> 1024, n_qubits |-> 7, memory_slots |-> 0] >>
    /\ Len(experiments) = 2
    /\ experiments[1].config = [n_qubits |-> MaxSize, memory_slots |-> 1]
    /\ experiments[2].config = [n_qubits |-> 1, memory_slots |-> MaxSize]
    /\ qobj[1].config = [shots |-> 1024, n_qubits |-> MaxSize,
                         memory_slots |-> MaxSize]

\* C7: the bundle holds one experiment per circuit, in the circuits' order,
\* and the i-th is the experiment assembling the i-th circuit alone produces;
\* the experiments of equal circuits are equal, and each experiment's first
\* test has its own memory_slots as slot index.
C7_ExperimentPerCircuit ==
    /\ \A e \in Finished :
           /\ experiments[e] = ExperimentOf(circuits[e])
           /\ \A f \in Finished :
                  circuits[e] = circuits[f] => experiments[e] = experiments[f]
           /\ Tests(experiments[e].instructions) # <<>> =>
                  Tests(experiments[e].instructions)[1].register =
                      experiments[e].config.memory_slots
    /\ pc = "done" =>
           /\ Len(experiments) = Len(circuits)
           /\ qobj[1].experiments = experiments

\* the same circuit with two conditions, twice in one batch
C7_Witness ==
    /\ pc = "done"
    /\ Len(circuits) = 2
    /\ circuits[1] = circuits[2]
    /\ Len(Tests(experiments[1].instructions)) = 2
    /\ Tests(experiments[2].instructions)[1].register =
           experiments[2].config.memory_slots

BadReference(c) ==
    \E p \in 1..Len(c.data) :
        \/ \E q \in 1..Len(c.data[p].qargs) : ~InTable(c.qregs, c.data[p].qargs[q])
        \/ \E q \in 1..Len(c.data[p].cargs) : ~InTable(c.cregs, c.data[p].cargs[q])

\* C8: when some operation of some circuit of the batch references a bit
\* that is not in its circuit's table, no bundle is ever returned and the
\* function can only end by raising; the references of every instruction that
\* is produced are all resolved, each to the index of its own label.
C8_UnresolvedReferenceIsFatal ==
    /\ (\E c \in 1..Len(circuits) : BadReference(circuits[c])) =>
           /\ qobj = None
           /\ pc # "done"
           /\ ~ENABLED Next => pc = "raised"
    /\ pc = "raised" => qobj = None
    /\ \A e \in Finished :
           LET low == Lowered(experiments[e].instructions)
               data == circuits[e].data
           IN  /\ Len(low) = Len(data)
               /\ \A p \in 1..Len(data) :
                      /\ data[p].qargs # <<>> =>
                             /\ Len(low[p].qubits) = Len(data[p].qargs)
                             /\ \A q \in 1..Len(data[p].qargs) :
                                    /\ low[p].qubits[q] \in
                                           0..(Len(experiments[e].header.qubit_labels) - 1)
                                    /\ experiments[e].header.qubit_labels[
                                           low[p].qubits[q] + 1] =
                                               data[p].qargs[q]
                      /\ data[p].cargs # <<>> =>
                             /\ Len(low[p].memory) = Len(data[p].cargs)
                             /\ \A q \in 1..Len(data[p].cargs) :
                                    /\ low[p].memory[q] \in
                                           0..(Len(experiments[e].header.clbit_labels) - 1)
                                    /\ experiments[e].header.clbit_labels[
                                           low[p].memory[q] + 1] =
                                               data[p].cargs[q]

\* the second circuit raised after the first was lowered with its tests
C8_Witness ==
    /\ pc = "raised"
    /\ ci = 1
    /\ Len(experiments) = 1
    /\ Tests(experiments[1].instructions) # <<>>
    /\ BadReference(circuits[2])
    /\ qobj = None

LabelsInDeclarationOrder(labels, regs) ==
    /\ Len(labels) = SizeBefore(regs, Len(regs) + 1)
    /\ \A p \in 1..Len(regs) : \A j \in 0..(regs[p].size - 1) :
           labels[SizeBefore(regs, p) + j + 1] = <<regs[p].name, j>>

ResolvedInOrder(indices, refs, regs) ==
    /\ Len(indices) = Len(refs)
    /\ \A q \in 1..Len(refs) :
           indices[q] = SizeBefore(regs, RegPos(regs, refs[q][1])) + refs[q][2]

\* C9: the label lists built for a circuit hold each register's labels
\* (name, 0..size-1) consecutively in declaration order, label (r, j) at the
\* flat index (sizes of the registers before r) + j; n_qubits and
\* memory_slots are the list lengths; the qubits and memory lists of a
\* lowered operation are these indices of its references, in their order.
C9_FlatAddressTables ==
    /\ pc \in {"op", "raised"} =>
           /\ LabelsInDeclarationOrder(qubit_labels, circuit.qregs)
           /\ LabelsInDeclarationOrder(clbit_labels, circuit.cregs)
           /\ n_qubits = Len(qubit_labels)
           /\ memory_slots = Len(clbit_labels)
           /\ experimentheader.qubit_labels = qubit_labels
           /\ experimentheader.clbit_labels = clbit_labels
           /\ experimentheader.n_qubits = n_qubits
           /\ experimentheader.memory_slots = memory_slots
           /\ experimentconfig.n_qubits = n_qubits
           /\ experimentconfig.memory_slots = memory_slots
    /\ \A e \in Finished :
           LET low == Lowered(experiments[e].instructions)
               data == circuits[e].data
           IN  /\ Len(low) = Len(data)
               /\ \A p \in 1..Len(data) :
                      /\ data[p].qargs # <<>> =>
                             ResolvedInOrder(low[p].qubits, data[p].qargs,
                                             circuits[e].qregs)
                      /\ data[p].cargs # <<>> =>
                             ResolvedInOrder(low[p].memory, data[p].cargs,
                                             circuits[e].cregs)

\* q of two qubits, r of three, and an operation on r[2], q[1]
C9_Witness ==
    \E e \in Finished :
        /\ circuits[e].qregs = <<[name |-> "q", size |-> 2],
                                 [name |-> "r", size |-> 3]>>
        /\ Len(circuits[e].data) = 1
        /\ circuits[e].data[1].qargs = << <<"r", 2>>, <<"q", 1>> >>
        /\ experiments[e].instructions[1].qubits = <<4, 1>>
        /\ experiments[e].header.n_qubits = 5

====
